---- MODULE Spec2Model ----
(***************************************************************************)
(* InsightsMania (src/app.py): a Streamlit script that turns a marketing   *)
(* question into SQL with a language model (get_sql_query), runs the SQL   *)
(* on a SQLite file (get_sql_results), and asks the language model for an  *)
(* insight over the rows (generate_insights).  main() is the Session       *)
(* Controller: Streamlit re-runs it from the top on every interaction, and *)
(* only st.session_state survives between runs.                            *)
(***************************************************************************)
EXTENDS Integers, Sequences, FiniteSets, TLC

\* ------------------------------------------------------------------ bounds
MaxTurns == 2

\* --------------------------------------------------------- literal texts
INVALID_QUERY == "INVALID QUERY"
NO_RESULTS == "NO RESULTS"
InvalidText == "Invalid SQL query. Please try again."
NoResultsText == "No results found for this query."
NoDataText == "No data returned for this query."
NoInsightText == "No data to generate insights."

\* Questions typed into st.chat_input (always non-empty, hence truthy).
Questions == {"What platform had the highest ROAS?", "What is the capital of France?"}

\* SQL texts the language model may answer with.
SelectAll == "SELECT platform, ROAS FROM customer"
SelectNone == "SELECT platform, ROAS FROM customer WHERE platform = 'NonExistentPlatform'"
SelectJson == "SELECT platform, json(SKU) FROM customer"
SelectBogus == "SELECT bogus FROM customer"
DropTable == "DROP TABLE customer"
DeleteAll == "DELETE FROM customer"
\* Near-sentinels: a sentinel with a trailing newline, a sentinel in lower case.
NearNoResults == "NO RESULTS\n"
NearInvalid == "invalid query"

\* response.text is free text: any of these may come back for any question.
GeneratorOutputs ==
    {INVALID_QUERY, NO_RESULTS, NearNoResults, NearInvalid,
     SelectAll, SelectNone, SelectJson, SelectBogus, DropTable, DeleteAll}

InsightTexts ==
    {"Meta leads on ROAS; shift budget to it.", "Google is the weaker platform; test new creatives."}

\* ------------------------------------------------------------- datastore
\* customer.db: one table, customer.  Two stored rows; the SKU of the first
\* is a JSON value (a number), the SKU of the second is not.
StoredRows ==
    << [platform |-> "Meta", SKU |-> "1001", ROAS |-> "4.2"],
       [platform |-> "Google", SKU |-> "SKU-B", ROAS |-> "1.7"] >>

InitialDb == [has_table |-> TRUE, rows |-> StoredRows]

IsJson(s) == s \in {"1001"}

Range(s) == {s[i] : i \in DOMAIN s}

\* The orders in which a scan without ORDER BY may deliver the rows.
Perms(s) ==
    {p \in [DOMAIN s -> DOMAIN s] : \A i, j \in DOMAIN s : i # j => p[i] # p[j]}

Permuted(s, p) == [i \in DOMAIN s |-> s[p[i]]]

\* Length of the longest prefix of s whose elements all satisfy IsJson(SKU).
RECURSIVE GoodPrefix(_)
GoodPrefix(s) ==
    IF s = <<>> \/ ~IsJson(Head(s).SKU) THEN 0 ELSE 1 + GoodPrefix(Tail(s))

Raised(where, err, d) == [raised |-> where, rows |-> <<>>, err |-> err, db |-> d]
Returned(rows, d) == [raised |-> "none", rows |-> rows, err |-> "", db |-> d]

\* What sqlite3 does with one statement text on datastore d, as seen through
\* cursor.execute, the row iteration and conn.close (no commit is issued):
\*   - a text that is not SQL, or a reference to a missing table or column,
\*     raises OperationalError from cursor.execute;
\*   - a SELECT delivers the matching rows in some order; an error computing
\*     the first row raises from cursor.execute, one computing a later row
\*     raises from the iteration;
\*   - DELETE runs inside the implicit transaction the module opens before
\*     DML; conn.close without commit rolls it back;
\*   - DROP TABLE is DDL: no implicit transaction, so it takes effect at once.
SqliteRun(d, query) ==
    IF query \notin {SelectAll, SelectNone, SelectJson, SelectBogus, DropTable, DeleteAll}
    THEN {Raised("execute", "OperationalError: near \"" \o query \o "\": syntax error", d)}
    ELSE IF ~d.has_table
    THEN {Raised("execute", "OperationalError: no such table: customer", d)}
    ELSE IF query = SelectBogus
    THEN {Raised("execute", "OperationalError: no such column: bogus", d)}
    ELSE IF query = SelectAll
    THEN {Returned([i \in DOMAIN d.rows |->
                      <<Permuted(d.rows, p)[i].platform, Permuted(d.rows, p)[i].ROAS>>], d)
            : p \in Perms(d.rows)}
    ELSE IF query = SelectNone
    THEN {Returned(<<>>, d)}
    ELSE IF query = SelectJson
    THEN {LET scan == Permuted(d.rows, p)
              good == GoodPrefix(scan)
          IN IF good = Len(scan)
             THEN Returned([i \in DOMAIN scan |-> <<scan[i].platform, scan[i].SKU>>], d)
             ELSE IF good = 0
             THEN Raised("execute", "OperationalError: malformed JSON", d)
             ELSE Raised("iterate", "OperationalError: malformed JSON", d)
            : p \in Perms(d.rows)}
    ELSE IF query = DeleteAll
    THEN {Returned(<<>>, d)}
    ELSE {Returned(<<>>, [has_table |-> FALSE, rows |-> <<>>])}

\* get_sql_results(query): connect, execute, collect rows, close, return.
\* conn.close() is reached only when nothing raised; a raise leaves the
\* function with the connection still open (closes = 0).
get_sql_results(d, query) ==
    {[o EXCEPT !.rows = IF o.raised = "none" THEN o.rows ELSE <<>>] @@
       [opens |-> 1, closes |-> IF o.raised = "none" THEN 1 ELSE 0]
       : o \in SqliteRun(d, query)}

\* ------------------------------------------------------------------ state
VARIABLES
    session_keys,      \* keys present in st.session_state
    messages,          \* st.session_state.messages
    pc,                \* position of the script run
    user_input,        \* main's local; "" when chat_input returned None
    sql_query,         \* main's local
    results,           \* main's local
    insight_response,  \* main's local
    db,                \* contents of customer.db
    open_conns,        \* connections opened and not closed
    ui,                \* what this script run has rendered, in order
    calls,             \* collaborator calls of this script run, in order
    exc,               \* exception that left main() uncaught, if any
    exec_log           \* the last two get_sql_results invocations

vars == <<session_keys, messages, pc, user_input, sql_query, results,
          insight_response, db, open_conns, ui, calls, exc, exec_log>>

NoExc == [origin |-> "none", err |-> ""]

Terminal == {"INVALID", "NO_RESULTS_SENTINEL", "EMPTY_RESULTS", "INSIGHT_READY"}
RunOver == Terminal \cup {"ABORTED", "NO_INPUT", "start"}

UserTurns == Cardinality({i \in DOMAIN messages : messages[i].role = "user"})

Init ==
    /\ session_keys = {}
    /\ messages = <<>>
    /\ pc = "start"
    /\ user_input = ""
    /\ sql_query = ""
    /\ results = <<>>
    /\ insight_response = ""
    /\ db = InitialDb
    /\ open_conns = 0
    /\ ui = <<>>
    /\ calls = <<>>
    /\ exc = NoExc
    /\ exec_log = <<>>

\* --------------------------------------------------- main(): its decisions
Ui(kind, text) == [kind |-> kind, text |-> text, data |-> <<>>]
UiData(kind, rows) == [kind |-> kind, text |-> "", data |-> rows]

StatusKinds == {"error", "warning", "success"}
StatusMessages(u) == SelectSeq(u, LAMBDA m : m.kind \in StatusKinds)

InitMessages_AlwaysReset(keys, msgs) == <<>>

\* if "messages" not in st.session_state: st.session_state.messages = []
InitMessages(keys, msgs) == IF "messages" \in keys THEN msgs ELSE <<>>

\* for message in st.session_state.messages: with st.chat_message(role): st.markdown(content)
RenderHistory(msgs) == [i \in DOMAIN msgs |-> Ui("chat:" \o msgs[i].role, msgs[i].content)]

SentinelBranch_OnlyInvalid(text) ==
    IF text = INVALID_QUERY THEN "INVALID" ELSE "EXECUTE"

SentinelBranch_Loose(text) ==
    IF text \in {INVALID_QUERY, NearInvalid} THEN "INVALID"
    ELSE IF text \in {NO_RESULTS, NearNoResults} THEN "NO_RESULTS_SENTINEL"
    ELSE "EXECUTE"

\* if sql_query == "INVALID QUERY": ... elif sql_query == "NO RESULTS": ... else: ...
SentinelBranch(text) ==
    IF text = INVALID_QUERY THEN "INVALID"
    ELSE IF text = NO_RESULTS THEN "NO_RESULTS_SENTINEL"
    ELSE "EXECUTE"

Truthy_Always(rows) == TRUE

\* "if not results" / "if results": a list is truthy iff it is non-empty
Truthy(rows) == Len(rows) > 0

InsightArgs_FirstRowOnly(question, query, rows) == <<question, query, SubSeq(rows, 1, 1)>>

\* generate_insights(user_input, sql_query, results)
InsightArgs(question, query, rows) == <<question, query, rows>>

EmptyResultsUi_None == <<>>

\* st.warning("No data returned for this query.")
EmptyResultsUi == <<Ui("warning", NoDataText)>>

AssistantContent_AlwaysInsight(rows, insight) == insight

\* insight_response if results else "No data to generate insights."
AssistantContent(rows, insight) == IF Truthy(rows) THEN insight ELSE NoInsightText

Call(fn, args, raised, ret) == [fn |-> fn, args |-> args, raised |-> raised, ret |-> ret]

LastTwo(s) == IF Len(s) <= 2 THEN s ELSE SubSeq(s, Len(s) - 1, Len(s))

\* ---------------------------------------------------------------- actions
\* A script run begins (lines 130-141): session state is initialised if this
\* is the session's first run, the history is re-rendered, locals are fresh.
MainStart ==
    /\ pc \in RunOver
    /\ session_keys' = session_keys \cup {"messages"}
    /\ messages' = InitMessages(session_keys, messages)
    /\ ui' = RenderHistory(messages')
    /\ user_input' = ""
    /\ sql_query' = ""
    /\ results' = <<>>
    /\ insight_response' = ""
    /\ calls' = <<>>
    /\ exc' = NoExc
    /\ pc' = "AWAITING_INPUT"
    /\ UNCHANGED <<db, open_conns, exec_log>>

\* st.chat_input returned None: "if user_input" is false and main returns.
ChatInputNone ==
    /\ pc = "AWAITING_INPUT"
    /\ pc' = "NO_INPUT"
    /\ UNCHANGED <<session_keys, messages, user_input, sql_query, results,
                   insight_response, db, open_conns, ui, calls, exc, exec_log>>

\* st.chat_input returned a question (lines 141-146).
Submit ==
    /\ pc = "AWAITING_INPUT"
    /\ UserTurns < MaxTurns
    /\ \E q \in Questions :
         /\ user_input' = q
         /\ messages' = Append(messages, [role |-> "user", content |-> q])
         /\ ui' = Append(ui, Ui("chat:user", q))
    /\ pc' = "USER_STORED"
    /\ UNCHANGED <<session_keys, sql_query, results, insight_response, db,
                   open_conns, calls, exc, exec_log>>

\* sql_query = get_sql_query(user_input) returns response.text (line 150).
GetSqlQueryReturns ==
    /\ pc = "USER_STORED"
    /\ \E text \in GeneratorOutputs :
         /\ sql_query' = text
         /\ calls' = Append(calls, Call("get_sql_query", <<user_input>>, FALSE, text))
    /\ pc' = "QUERY_GENERATED"
    /\ UNCHANGED <<session_keys, messages, user_input, results, insight_response,
                   db, open_conns, ui, exc, exec_log>>

\* model.generate_content or response.text raises; main catches nothing.
GetSqlQueryRaises ==
    /\ pc = "USER_STORED"
    /\ calls' = Append(calls, Call("get_sql_query", <<user_input>>, TRUE, ""))
    /\ exc' = [origin |-> "get_sql_query", err |-> "generation failed"]
    /\ pc' = "ABORTED"
    /\ UNCHANGED <<session_keys, messages, user_input, sql_query, results,
                   insight_response, db, open_conns, ui, exec_log>>

\* sql_query == "INVALID QUERY": st.error (lines 151-152).
ShowInvalid ==
    /\ pc = "QUERY_GENERATED"
    /\ SentinelBranch(sql_query) = "INVALID"
    /\ ui' = Append(ui, Ui("error", InvalidText))
    /\ pc' = "INVALID"
    /\ UNCHANGED <<session_keys, messages, user_input, sql_query, results,
                   insight_response, db, open_conns, calls, exc, exec_log>>

\* sql_query == "NO RESULTS": st.warning (lines 153-154).
ShowNoResults ==
    /\ pc = "QUERY_GENERATED"
    /\ SentinelBranch(sql_query) = "NO_RESULTS_SENTINEL"
    /\ ui' = Append(ui, Ui("warning", NoResultsText))
    /\ pc' = "NO_RESULTS_SENTINEL"
    /\ UNCHANGED <<session_keys, messages, user_input, sql_query, results,
                   insight_response, db, open_conns, calls, exc, exec_log>>

\* What main renders before it calls get_sql_results (lines 156-157).
GeneratedQueryUi == <<Ui("markdown", "**Generated SQL Query:**"), Ui("code", sql_query)>>

\* else branch: the query is shown and get_sql_results(sql_query) returns
\* the rows (lines 155-160).
ExecuteReturns ==
    /\ pc = "QUERY_GENERATED"
    /\ SentinelBranch(sql_query) = "EXECUTE"
    /\ \E o \in get_sql_results(db, sql_query) :
         /\ o.raised = "none"
         /\ results' = o.rows
         /\ db' = o.db
         /\ open_conns' = open_conns + o.opens - o.closes
         /\ calls' = Append(calls, Call("get_sql_results", <<sql_query>>, FALSE, o.rows))
         /\ exec_log' = LastTwo(Append(exec_log,
                           [query |-> sql_query, raised |-> FALSE, rows |-> o.rows]))
    /\ ui' = ui \o GeneratedQueryUi
    /\ pc' = "EXECUTED"
    /\ UNCHANGED <<session_keys, messages, user_input, sql_query, insight_response, exc>>

\* else branch: get_sql_results(sql_query) raises from cursor.execute or from
\* the row loop; neither get_sql_results nor main catches it.
ExecuteRaises ==
    /\ pc = "QUERY_GENERATED"
    /\ SentinelBranch(sql_query) = "EXECUTE"
    /\ \E o \in get_sql_results(db, sql_query) :
         /\ o.raised # "none"
         /\ db' = o.db
         /\ open_conns' = open_conns + o.opens - o.closes
         /\ calls' = Append(calls, Call("get_sql_results", <<sql_query>>, TRUE, <<>>))
         /\ exec_log' = LastTwo(Append(exec_log,
                           [query |-> sql_query, raised |-> TRUE, rows |-> <<>>]))
         /\ exc' = [origin |-> "get_sql_results", err |-> o.err]
    /\ ui' = ui \o GeneratedQueryUi
    /\ pc' = "ABORTED"
    /\ UNCHANGED <<session_keys, messages, user_input, sql_query, results,
                   insight_response>>

\* "if not results": st.warning, then the assistant record (lines 161-162, 171).
ShowEmpty ==
    /\ pc = "EXECUTED"
    /\ ~Truthy(results)
    /\ ui' = ui \o EmptyResultsUi
    /\ messages' = Append(messages, [role |-> "assistant",
                                     content |-> AssistantContent(results, insight_response)])
    /\ pc' = "EMPTY_RESULTS"
    /\ UNCHANGED <<session_keys, user_input, sql_query, results, insight_response,
                   db, open_conns, calls, exc, exec_log>>

\* What main renders before it calls generate_insights (lines 164-165).
SqlOutputUi == <<Ui("markdown", "**SQL Output:**"), UiData("dataframe", results)>>

\* else: the rows are shown, generate_insights returns, the insight is shown
\* with st.success, then the assistant record (lines 163-168, 171).  The
\* markdown header of line 167 carries an emoji, left out of the text here.
GenerateInsightsReturns ==
    /\ pc = "EXECUTED"
    /\ Truthy(results)
    /\ \E t \in InsightTexts :
         /\ insight_response' = t
         /\ calls' = Append(calls, Call("generate_insights",
                                        InsightArgs(user_input, sql_query, results), FALSE, t))
         /\ ui' = ui \o SqlOutputUi \o <<Ui("markdown", "**Insight:**"), Ui("success", t)>>
         /\ messages' = Append(messages, [role |-> "assistant",
                                          content |-> AssistantContent(results, t)])
    /\ pc' = "INSIGHT_READY"
    /\ UNCHANGED <<session_keys, user_input, sql_query, results, db, open_conns,
                   exc, exec_log>>

\* else: the rows are shown, generate_insights raises; main catches nothing.
GenerateInsightsRaises ==
    /\ pc = "EXECUTED"
    /\ Truthy(results)
    /\ calls' = Append(calls, Call("generate_insights",
                                   InsightArgs(user_input, sql_query, results), TRUE, ""))
    /\ ui' = ui \o SqlOutputUi
    /\ exc' = [origin |-> "generate_insights", err |-> "generation failed"]
    /\ pc' = "ABORTED"
    /\ UNCHANGED <<session_keys, messages, user_input, sql_query, results,
                   insight_response, db, open_conns, exec_log>>

\* A connection that get_sql_results left open is closed by the interpreter
\* when it reclaims the object, at some point after the run has ended.
ConnectionReclaimed ==
    /\ pc \in RunOver
    /\ open_conns > 0
    /\ open_conns' = open_conns - 1
    /\ UNCHANGED <<session_keys, messages, pc, user_input, sql_query, results,
                   insight_response, db, ui, calls, exc, exec_log>>

Next ==
    \/ MainStart
    \/ ChatInputNone
    \/ Submit
    \/ GetSqlQueryReturns
    \/ GetSqlQueryRaises
    \/ ShowInvalid
    \/ ShowNoResults
    \/ ExecuteReturns
    \/ ExecuteRaises
    \/ ShowEmpty
    \/ GenerateInsightsReturns
    \/ GenerateInsightsRaises
    \/ ConnectionReclaimed

Spec == Init /\ [][Next]_vars

\* ------------------------------------------------- what a run has done
GenCalls == SelectSeq(calls, LAMBDA c : c.fn = "get_sql_query")
ExecCalls == SelectSeq(calls, LAMBDA c : c.fn = "get_sql_results")
InsightCalls == SelectSeq(calls, LAMBDA c : c.fn = "generate_insights")

Sentinels == {INVALID_QUERY, NO_RESULTS}

\* The Generator returned text t in this run.
GenReturned(t) == \E i \in DOMAIN GenCalls : ~GenCalls[i].raised /\ GenCalls[i].ret = t

SomeCallRaised == \E i \in DOMAIN calls : calls[i].raised

IsPrefix(s, t) == Len(s) <= Len(t) /\ SubSeq(t, 1, Len(s)) = s

MidTurn == {"USER_STORED", "QUERY_GENERATED", "EXECUTED"}

\* ------------------------------------------------------------------ C1
C1_TerminalOf(t) == IF t = INVALID_QUERY THEN "INVALID" ELSE "NO_RESULTS_SENTINEL"
C1_StatusOf(t) ==
    IF t = INVALID_QUERY THEN Ui("error", InvalidText) ELSE Ui("warning", NoResultsText)

C1_State ==
    \A t \in Sentinels :
        GenReturned(t) =>
            /\ ExecCalls = <<>>
            /\ pc \in {"QUERY_GENERATED", C1_TerminalOf(t)}
            /\ pc = C1_TerminalOf(t) => StatusMessages(ui) = <<C1_StatusOf(t)>>

C1_Step ==
    \A t \in Sentinels :
        (pc = "QUERY_GENERATED" /\ GenReturned(t)) => pc' = C1_TerminalOf(t)

\* C1: when get_sql_query returns exactly "INVALID QUERY" or "NO RESULTS", the
\* run goes from QUERY_GENERATED to that sentinel's terminal state (INVALID
\* with the error message, NO_RESULTS_SENTINEL with the warning) and
\* get_sql_results is not invoked in that run.
C1_SentinelShortCircuits == [](C1_State) /\ [][C1_Step]_vars

C1_Witness ==
    /\ pc = "NO_RESULTS_SENTINEL"
    /\ GenReturned(NO_RESULTS)
    /\ ExecCalls = <<>>
    /\ StatusMessages(ui) = <<Ui("warning", NoResultsText)>>

\* ------------------------------------------------------------------ C2
C2_State ==
    \A t \in GeneratorOutputs \ Sentinels :
        GenReturned(t) =>
            \/ pc = "QUERY_GENERATED" /\ ExecCalls = <<>>
            \/ /\ pc # "QUERY_GENERATED"
               /\ Len(ExecCalls) = 1
               /\ ExecCalls[1].args = <<t>>

C2_Step ==
    \A t \in GeneratorOutputs \ Sentinels :
        (pc = "QUERY_GENERATED" /\ GenReturned(t)) =>
            /\ pc' \in {"EXECUTED", "ABORTED"}
            /\ Len(calls') = Len(calls) + 1
            /\ calls'[Len(calls')].fn = "get_sql_results"
            /\ calls'[Len(calls')].args = <<t>>

\* C2: every Generator output other than the two exact sentinels, near-
\* sentinels included, is passed as it is to get_sql_results, which is
\* invoked exactly once in that run.
C2_NonSentinelExecutedVerbatim == [](C2_State) /\ [][C2_Step]_vars

C2_Witness ==
    /\ pc = "ABORTED"
    /\ GenReturned(NearNoResults)
    /\ Len(ExecCalls) = 1
    /\ ExecCalls[1].args = <<NearNoResults>>

\* ------------------------------------------------------------------ C3
C3_ExecReturnedEmpty ==
    \E i \in DOMAIN ExecCalls : ~ExecCalls[i].raised /\ ExecCalls[i].ret = <<>>

C3_State ==
    C3_ExecReturnedEmpty =>
        /\ InsightCalls = <<>>
        /\ pc \in {"EXECUTED", "EMPTY_RESULTS"}
        /\ pc = "EMPTY_RESULTS" => StatusMessages(ui) = <<Ui("warning", NoDataText)>>

C3_Step == (pc = "EXECUTED" /\ C3_ExecReturnedEmpty) => pc' = "EMPTY_RESULTS"

\* C3: when get_sql_results returned no rows, the run reaches EMPTY_RESULTS
\* with the "no data" warning and generate_insights is not invoked,
\* whatever text the Generator produced.
C3_EmptyResultsSkipInsight == [](C3_State) /\ [][C3_Step]_vars

C3_Witness ==
    /\ pc = "EMPTY_RESULTS"
    /\ GenReturned(SelectNone)
    /\ C3_ExecReturnedEmpty
    /\ InsightCalls = <<>>

\* ------------------------------------------------------------------ C4
C4_ExecReturnedRows ==
    \E i \in DOMAIN ExecCalls : ~ExecCalls[i].raised /\ ExecCalls[i].ret # <<>>

\* The question of this run: the content of the last user record.
C4_TurnQuestion ==
    LET users == SelectSeq(messages, LAMBDA m : m.role = "user")
    IN users[Len(users)].content

C4_State ==
    C4_ExecReturnedRows =>
        \/ pc = "EXECUTED" /\ InsightCalls = <<>>
        \/ /\ pc \in {"INSIGHT_READY", "ABORTED"}
           /\ Len(InsightCalls) = 1
           /\ InsightCalls[1].args =
                <<C4_TurnQuestion, ExecCalls[1].args[1], ExecCalls[1].ret>>
           /\ GenReturned(ExecCalls[1].args[1])

C4_Step ==
    (pc = "EXECUTED" /\ C4_ExecReturnedRows) => pc' \in {"INSIGHT_READY", "ABORTED"}

\* C4: when get_sql_results returned at least one row, generate_insights is
\* invoked exactly once in that run, with the run's question, the query text
\* that was executed, and the rows exactly as get_sql_results returned them.
C4_InsightGetsFullResultSet == [](C4_State) /\ [][C4_Step]_vars

C4_Witness ==
    /\ pc = "INSIGHT_READY"
    /\ Len(InsightCalls) = 1
    /\ Len(InsightCalls[1].args[3]) = 2
    /\ InsightCalls[1].args[3] = ExecCalls[1].ret

\* ------------------------------------------------------------------ C5
\* C5: get_sql_results closes the connection it opened on every exit path,
\* so no connection is ever open once control has left it.
C5_ConnectionAlwaysClosed == open_conns = 0

\* ------------------------------------------------------------------ C6
C6_ExecRaised == \E i \in DOMAIN ExecCalls : ExecCalls[i].raised

\* C6: when get_sql_results raises, main surfaces one generic failure message
\* instead of letting the raw driver error out, and generate_insights is not
\* invoked.
C6_ExecutorErrorSurfacedGenerically ==
    C6_ExecRaised =>
        /\ InsightCalls = <<>>
        /\ exc = NoExc
        /\ Len(StatusMessages(ui)) = 1
        /\ StatusMessages(ui)[1].kind = "error"

\* ------------------------------------------------------------------ C7
C7_Allowed ==
    {<<"AWAITING_INPUT", "NO_INPUT">>, <<"AWAITING_INPUT", "USER_STORED">>,
     <<"USER_STORED", "QUERY_GENERATED">>, <<"USER_STORED", "ABORTED">>,
     <<"QUERY_GENERATED", "INVALID">>, <<"QUERY_GENERATED", "NO_RESULTS_SENTINEL">>,
     <<"QUERY_GENERATED", "EXECUTED">>, <<"QUERY_GENERATED", "ABORTED">>,
     <<"EXECUTED", "EMPTY_RESULTS">>, <<"EXECUTED", "INSIGHT_READY">>,
     <<"EXECUTED", "ABORTED">>}
    \cup {<<p, "AWAITING_INPUT">> : p \in RunOver}

C7_StatusOf(p) ==
    IF p = "INVALID" THEN Ui("error", InvalidText)
    ELSE IF p = "NO_RESULTS_SENTINEL" THEN Ui("warning", NoResultsText)
    ELSE IF p = "EMPTY_RESULTS" THEN Ui("warning", NoDataText)
    ELSE Ui("success", InsightCalls[1].ret)

C7_State ==
    /\ pc \in Terminal => ~SomeCallRaised /\ StatusMessages(ui) = <<C7_StatusOf(pc)>>
    /\ pc \in MidTurn \cup {"AWAITING_INPUT", "NO_INPUT"} => StatusMessages(ui) = <<>>
    /\ pc = "ABORTED" <=> SomeCallRaised
    /\ pc \in MidTurn => ENABLED Next

C7_Step ==
    /\ pc' # pc => <<pc, pc'>> \in C7_Allowed
    /\ (pc \in MidTurn /\ pc' # pc /\ ~SomeCallRaised') => Len(StatusMessages(ui')) <= 1

\* C7: a run in which no collaborator raises moves AWAITING_INPUT ->
\* QUERY_GENERATED -> {INVALID, NO_RESULTS_SENTINEL, EXECUTED} ->
\* {EMPTY_RESULTS, INSIGHT_READY}, cannot stop before a terminal state, and
\* in its terminal state has emitted exactly one status message, of the
\* class of that state.
C7_TurnStateMachine == [](C7_State) /\ [][C7_Step]_vars

C7_Witness ==
    /\ pc = "INSIGHT_READY"
    /\ ~SomeCallRaised
    /\ StatusMessages(ui) = <<Ui("success", insight_response)>>

\* ------------------------------------------------------------------ C8
\* A row sequence as a multiset of tuples.
C8_SeqToBag(s) == [x \in Range(s) |-> Cardinality({i \in DOMAIN s : s[i] = x})]

\* C8: two get_sql_results invocations in a row with the same text, nothing
\* else touching the datastore between them, have the same outcome: the same
\* rows as multisets.
C8_ExecutorIdempotent ==
    (Len(exec_log) = 2 /\ exec_log[1].query = exec_log[2].query) =>
        /\ exec_log[1].raised = exec_log[2].raised
        /\ C8_SeqToBag(exec_log[1].rows) = C8_SeqToBag(exec_log[2].rows)

\* ------------------------------------------------------------------ C9
C9_Step ==
    /\ IsPrefix(messages, messages')
    /\ session_keys \subseteq session_keys'
    /\ (session_keys = {} /\ session_keys' # {}) => messages' = <<>>
    /\ (Len(calls') = Len(calls) + 1 /\ calls'[Len(calls')].fn = "get_sql_query") =>
          /\ messages # <<>>
          /\ messages[Len(messages)] =
               [role |-> "user", content |-> calls'[Len(calls')].args[1]]

\* C9: st.session_state.messages is created empty once, every step leaves
\* the earlier records in place and in order, and the question is already
\* the last record when get_sql_query is invoked.
C9_HistoryAppendOnly == [][C9_Step]_vars

C9_Witness ==
    /\ pc = "QUERY_GENERATED"
    /\ Len(messages) = 3
    /\ messages[2].role = "assistant"
    /\ messages[3] = [role |-> "user", content |-> user_input]

\* ----------------------------------------------------------------- C10
C10_State ==
    pc \in Terminal \cup {"ABORTED"} =>
        LET n == Len(messages) IN
        IF ExecCalls # <<>> /\ pc \in Terminal
        THEN /\ n >= 2
             /\ messages[n - 1] = [role |-> "user", content |-> user_input]
             /\ messages[n].role = "assistant"
             /\ messages[n].content =
                  IF ExecCalls[1].ret # <<>> THEN InsightCalls[1].ret ELSE NoInsightText
        ELSE /\ n >= 1
             /\ messages[n] = [role |-> "user", content |-> user_input]

C10_Step ==
    /\ Len(messages') <= Len(messages) + 1
    /\ (Len(messages') = Len(messages) + 1 /\ messages'[Len(messages')].role = "assistant")
          => pc = "EXECUTED" /\ pc' \in {"EMPTY_RESULTS", "INSIGHT_READY"}

\* C10: a run appends an assistant record exactly when get_sql_results was
\* invoked and the run reached its terminal state; its content is the
\* insight for a non-empty result and "No data to generate insights." for an
\* empty one.  Sentinel runs and runs that raise append the user record only.
C10_AssistantRecordIffExecuted == [](C10_State) /\ [][C10_Step]_vars

C10_Witness ==
    /\ pc = "EMPTY_RESULTS"
    /\ Len(messages) = 3
    /\ messages[1].role = "user"
    /\ messages[2].role = "user"
    /\ messages[3] = [role |-> "assistant", content |-> NoInsightText]

====
